---------------------------- MODULE Spec2Model ----------------------------
(***************************************************************************)
(* A model of static/js/medical-app.js: the timer-driven helpers           *)
(* (Utils.debounce, Utils.throttle, UIComponents.createToast), the modal   *)
(* factory, the file validators, the responsive-layout handler, the        *)
(* analytics log and the number animation.                                 *)
(*                                                                         *)
(* Time is the browser's millisecond clock.  The page runs on one thread:  *)
(* every action below is one callback turn (a call from page script, a     *)
(* DOM event, or a timer callback) and runs to completion.  A timer set    *)
(* with setTimeout(f, d) at time t is due at t + d; the clock does not     *)
(* pass a due timer and a due timer's callback runs before any event that  *)
(* arrives at or after its due time (timers run on time).  Two timers due  *)
(* at the same instant run in the order they were set.                     *)
(***************************************************************************)
EXTENDS Integers, Sequences, FiniteSets, TLC

VARIABLES
    now,            \* Date.now(), in ms
    timers,         \* the host's table of pending setTimeout timers
    nextTimerId,    \* the id the next setTimeout returns
    dWait,          \* debounce: the wrapper's `wait`
    dImmediate,     \* debounce: the wrapper's `immediate`
    timeout,        \* debounce: the closure variable `timeout`
    dLog,           \* debounce: calls of the wrapper and invocations of func
    tLimit,         \* throttle: the wrapper's `limit`
    inThrottle,     \* throttle: the closure variable `inThrottle`
    tLog,           \* throttle: calls of the wrapper and invocations of func
    toasts,         \* the toast nodes createToast made, in creation order
    containers,     \* the .toast-container nodes of the document, in document order
    modals,         \* the modal nodes showModal made, in creation order
    bodyModals,     \* the modal nodes that are children of document.body
    file,           \* the File handed to the validators
    viResult,       \* what validateImage(file) did
    sfResult,       \* what secureFileUpload(file) did
    innerWidth,     \* window.innerWidth
    bodyClasses,    \* document.body.classList
    resized,        \* a resize event has been handled
    sessionStart,   \* analytics: this.sessionStart
    events,         \* analytics: this.events
    tracked,        \* analytics: the event names passed to track, in call order
    gtagDefined,    \* the page defines the reporting hook gtag
    forwarded,      \* the events handed to gtag
    summary,        \* what the last getSessionSummary() returned
    aStart,         \* animateNumber: `start`
    aEnd,           \* animateNumber: `end`
    aDuration,      \* animateNumber: `duration`
    currentNum,     \* animateNumber: `current`, as the numerator over aDuration
    textContent,    \* animateNumber: element.textContent
    aTimer,         \* animateNumber: the interval `timer`
    aRuns           \* animateNumber: the runs of the interval callback so far

clockVars     == <<now, timers, nextTimerId>>
debounceVars  == <<dWait, dImmediate, timeout, dLog>>
throttleVars  == <<tLimit, inThrottle, tLog>>
toastVars     == <<toasts, containers>>
modalVars     == <<modals, bodyModals>>
fileVars      == <<file, viResult, sfResult>>
layoutVars    == <<innerWidth, bodyClasses, resized>>
analyticsVars == <<sessionStart, events, tracked, gtagDefined, forwarded, summary>>
animateVars   == <<aStart, aEnd, aDuration, currentNum, textContent, aTimer, aRuns>>

vars == <<clockVars, debounceVars, throttleVars, toastVars, modalVars,
          fileVars, layoutVars, analyticsVars, animateVars>>

exceptClock     == <<debounceVars, throttleVars, toastVars, modalVars,
                     fileVars, layoutVars, analyticsVars, animateVars>>
exceptDebounce  == <<throttleVars, toastVars, modalVars, fileVars, layoutVars,
                     analyticsVars, animateVars>>
exceptThrottle  == <<debounceVars, toastVars, modalVars, fileVars, layoutVars,
                     analyticsVars, animateVars>>
exceptToast     == <<debounceVars, throttleVars, modalVars, fileVars, layoutVars,
                     analyticsVars, animateVars>>
exceptModal     == <<debounceVars, throttleVars, toastVars, fileVars, layoutVars,
                     analyticsVars, animateVars>>
exceptFile      == <<clockVars, debounceVars, throttleVars, toastVars, modalVars,
                     layoutVars, analyticsVars, animateVars>>
exceptLayout    == <<clockVars, debounceVars, throttleVars, toastVars, modalVars,
                     fileVars, analyticsVars, animateVars>>
exceptAnimate   == <<clockVars, debounceVars, throttleVars, toastVars, modalVars,
                     fileVars, layoutVars, analyticsVars>>
exceptAnalytics == <<debounceVars, throttleVars, toastVars, modalVars, fileVars,
                     layoutVars, animateVars>>

---------------------------------------------------------------------------
(* Bounds of the model *)

\* while page script and the user are active the clock advances by at most
\* Quantum ms in one step
Quantum == 50
\* page script and the user act during the first MaxIdle ms; after that
\* only timers run
MaxIdle == 200
\* calls of a debounced / throttled wrapper
MaxCalls == 5
\* the arguments of a call are drawn from 1..MaxArg
MaxArg == 2

Args == 1..MaxArg
\* the `wait` of debounce and the `limit` of throttle
Delays == {100, 150}

\* JavaScript null / undefined for a variable that otherwise holds a timer id
Null == 0

---------------------------------------------------------------------------
(* The host: clock and timers *)

Min(S) == CHOOSE x \in S : \A y \in S : x <= y

\* a timer is [id, due, kind, arg]: kind names the callback, arg its closure
DueTimers == {t \in timers : t.due <= now}

\* no timer callback is waiting to run
Quiescent == DueTimers = {}

\* the timer whose callback runs next: earliest due, then earliest set
NextTimer ==
    CHOOSE t \in DueTimers :
        \A u \in DueTimers : t.due < u.due \/ (t.due = u.due /\ t.id <= u.id)

\* setTimeout(callback, delay)
SetTimeout(table, kind, arg, delay) ==
    table \cup {[id |-> nextTimerId, due |-> now + delay, kind |-> kind, arg |-> arg]}

\* clearTimeout(id): a no-op for an id that is not pending
ClearTimeout(table, id) == {t \in table : t.id # id}

\* page script or the user may act now
Active == Quiescent /\ now <= MaxIdle

\* time passes, never beyond the next due time: in steps of at most Quantum
\* while events may still arrive, then straight to the next due time
Tick ==
    /\ Quiescent
    /\ now < MaxIdle \/ timers # {}
    /\ now' = IF now < MaxIdle
              THEN Min({now + Quantum, MaxIdle} \cup {t.due : t \in timers})
              ELSE Min({t.due : t \in timers})
    /\ UNCHANGED <<timers, nextTimerId>>
    /\ UNCHANGED exceptClock

---------------------------------------------------------------------------
(* Utils.debounce *)

Call(a) == [kind |-> "call", time |-> now, arg |-> a]
Fn(a)   == [kind |-> "fn", time |-> now, arg |-> a]

NumCalls(log) == Cardinality({p \in 1..Len(log) : log[p].kind = "call"})

\* a plausible slip: the pending timer is not cleared before a new one is set
DebounceCallNoClear(a) ==
    /\ Active
    /\ NumCalls(dLog) < MaxCalls
    /\ LET callNow == dImmediate /\ timeout = Null
       IN  /\ timers' = SetTimeout(timers, "later", a, dWait)
           /\ timeout' = nextTimerId
           /\ nextTimerId' = nextTimerId + 1
           /\ dLog' = dLog \o <<Call(a)>> \o (IF callNow THEN <<Fn(a)>> ELSE <<>>)
    /\ UNCHANGED <<now, dWait, dImmediate>>
    /\ UNCHANGED exceptDebounce

\* a plausible slip: callNow ignores the pending timer
DebounceCallAlwaysNow(a) ==
    /\ Active
    /\ NumCalls(dLog) < MaxCalls
    /\ LET callNow == dImmediate
       IN  /\ timers' = SetTimeout(ClearTimeout(timers, timeout), "later", a, dWait)
           /\ timeout' = nextTimerId
           /\ nextTimerId' = nextTimerId + 1
           /\ dLog' = dLog \o <<Call(a)>> \o (IF callNow THEN <<Fn(a)>> ELSE <<>>)
    /\ UNCHANGED <<now, dWait, dImmediate>>
    /\ UNCHANGED exceptDebounce

\* executedFunction(...args)
DebounceCall(a) ==
    /\ Active
    /\ NumCalls(dLog) < MaxCalls
    /\ LET callNow == dImmediate /\ timeout = Null
       IN  /\ timers' = SetTimeout(ClearTimeout(timers, timeout), "later", a, dWait)
           /\ timeout' = nextTimerId
           /\ nextTimerId' = nextTimerId + 1
           /\ dLog' = dLog \o <<Call(a)>> \o (IF callNow THEN <<Fn(a)>> ELSE <<>>)
    /\ UNCHANGED <<now, dWait, dImmediate>>
    /\ UNCHANGED exceptDebounce

\* the timer callback `later`, closed over the args of the call that set it
DebounceLater ==
    /\ ~Quiescent
    /\ NextTimer.kind = "later"
    /\ timers' = timers \ {NextTimer}
    /\ timeout' = Null
    /\ dLog' = IF ~dImmediate THEN dLog \o <<Fn(NextTimer.arg)>> ELSE dLog
    /\ UNCHANGED <<now, nextTimerId, dWait, dImmediate>>
    /\ UNCHANGED exceptDebounce

---------------------------------------------------------------------------
(* Utils.throttle *)

\* a plausible slip: the wrapper never locks
ThrottleCallNoLock(a) ==
    /\ Active
    /\ NumCalls(tLog) < MaxCalls
    /\ IF ~inThrottle
       THEN /\ tLog' = tLog \o <<Call(a), Fn(a)>>
            /\ inThrottle' = FALSE
            /\ timers' = SetTimeout(timers, "unlock", 0, tLimit)
            /\ nextTimerId' = nextTimerId + 1
       ELSE /\ tLog' = tLog \o <<Call(a)>>
            /\ UNCHANGED <<inThrottle, timers, nextTimerId>>
    /\ UNCHANGED <<now, tLimit>>
    /\ UNCHANGED exceptThrottle

\* the wrapper function(...args)
ThrottleCall(a) ==
    /\ Active
    /\ NumCalls(tLog) < MaxCalls
    /\ IF ~inThrottle
       THEN /\ tLog' = tLog \o <<Call(a), Fn(a)>>
            /\ inThrottle' = TRUE
            /\ timers' = SetTimeout(timers, "unlock", 0, tLimit)
            /\ nextTimerId' = nextTimerId + 1
       ELSE /\ tLog' = tLog \o <<Call(a)>>
            /\ UNCHANGED <<inThrottle, timers, nextTimerId>>
    /\ UNCHANGED <<now, tLimit>>
    /\ UNCHANGED exceptThrottle

\* the timer callback () => inThrottle = false
ThrottleUnlock ==
    /\ ~Quiescent
    /\ NextTimer.kind = "unlock"
    /\ timers' = timers \ {NextTimer}
    /\ inThrottle' = FALSE
    /\ UNCHANGED <<now, nextTimerId, tLimit, tLog>>
    /\ UNCHANGED exceptThrottle

---------------------------------------------------------------------------
(* UIComponents.createToast *)

\* the toast nodes createToast may make
MaxToasts == 2
\* createToast's default `duration`
DefaultDuration == 5000
\* the delay between dropping 'show' and removing the node
FadeDelay == 300

Durations == {100, DefaultDuration}

\* A toast is [attached, show, container, created, duration, hiddenAt,
\* removedAt, removedBy]: attached is toast.parentNode # null, show the
\* 'show' class, container the place of its container in `containers`.  The
\* message and the severity type only fill in markup and are left out.
\* hiddenAt, removedAt (sets of at most one time) and removedBy record when
\* the node lost 'show' and when and by whom it left the document.

\* a plausible slip: the lookup never finds the container
QueryToastContainerNever == Null

\* document.querySelector('.toast-container'): the first in document
\* order, or null
QueryToastContainer == IF containers = <<>> THEN Null ELSE 1

\* createToastContainer(): appended to document.body
CreateToastContainer == Append(containers, "created")

\* createToast(message, type, duration)
CreateToast(duration) ==
    /\ Active
    /\ Len(toasts) < MaxToasts
    /\ LET found == QueryToastContainer
           toastContainer == IF found # Null THEN found ELSE Len(containers) + 1
       IN  /\ containers' = IF found # Null THEN containers ELSE CreateToastContainer
           /\ toasts' = Append(toasts,
                  [attached |-> TRUE, show |-> TRUE, container |-> toastContainer,
                   created |-> now, duration |-> duration,
                   hiddenAt |-> {}, removedAt |-> {}, removedBy |-> "none"])
    /\ timers' = SetTimeout(timers, "toastHide", Len(toasts) + 1, duration)
    /\ nextTimerId' = nextTimerId + 1
    /\ UNCHANGED now
    /\ UNCHANGED exceptToast

\* a plausible slip: the auto-remove callback does not test toast.parentNode
ToastHideUnchecked ==
    /\ ~Quiescent
    /\ NextTimer.kind = "toastHide"
    /\ LET i == NextTimer.arg
       IN  /\ toasts' = [toasts EXCEPT ![i].show = FALSE, ![i].hiddenAt = {now}]
           /\ timers' = SetTimeout(timers \ {NextTimer}, "toastRemove", i, FadeDelay)
           /\ nextTimerId' = nextTimerId + 1
    /\ UNCHANGED <<now, containers>>
    /\ UNCHANGED exceptToast

\* the auto-remove timer callback, `duration` ms after creation
ToastHide ==
    /\ ~Quiescent
    /\ NextTimer.kind = "toastHide"
    /\ LET i == NextTimer.arg
       IN  IF toasts[i].attached
           THEN /\ toasts' = [toasts EXCEPT ![i].show = FALSE, ![i].hiddenAt = {now}]
                /\ timers' = SetTimeout(timers \ {NextTimer}, "toastRemove", i, FadeDelay)
                /\ nextTimerId' = nextTimerId + 1
           ELSE /\ timers' = timers \ {NextTimer}
                /\ UNCHANGED <<toasts, nextTimerId>>
    /\ UNCHANGED <<now, containers>>
    /\ UNCHANGED exceptToast

\* the inner timer callback () => toast.remove(); a no-op on a detached node
ToastRemove ==
    /\ ~Quiescent
    /\ NextTimer.kind = "toastRemove"
    /\ LET i == NextTimer.arg
       IN  toasts' = IF toasts[i].attached
                     THEN [toasts EXCEPT ![i].attached = FALSE,
                                         ![i].removedAt = {now},
                                         ![i].removedBy = "timer"]
                     ELSE toasts
    /\ timers' = timers \ {NextTimer}
    /\ UNCHANGED <<now, nextTimerId, containers>>
    /\ UNCHANGED exceptToast

\* other page script takes toast i out of the document before its timers
\* do (the case the callback's toast.parentNode test is there for)
ToastDetach(i) ==
    /\ Active
    /\ i \in DOMAIN toasts
    /\ toasts[i].attached
    /\ toasts' = [toasts EXCEPT ![i].attached = FALSE,
                                ![i].removedAt = {now},
                                ![i].removedBy = "page"]
    /\ UNCHANGED <<clockVars, containers>>
    /\ UNCHANGED exceptToast

---------------------------------------------------------------------------
(* UIComponents.showModal *)

\* the modal nodes showModal may make
MaxModals == 3

\* A modal is [id, state]: id is the number in 'dynamic-modal-' + Date.now(),
\* state the toolkit's view of it: "shown", "hiding" (hide() called, the
\* transition running) or "hidden".  The page loads the toolkit (the global
\* `bootstrap`), which showModal and the Escape handler use unguarded.

\* showModal(title, content, buttons): the title, the content and the
\* buttons only fill in markup
ShowModal ==
    /\ Active
    /\ Len(modals) < MaxModals
    /\ modals' = Append(modals, [id |-> now, state |-> "shown"])
    /\ bodyModals' = bodyModals \cup {Len(modals) + 1}
    /\ UNCHANGED clockVars
    /\ UNCHANGED exceptModal

\* the keydown handler on Escape: hide() on every .modal.show
EscapeKey ==
    /\ Active
    /\ \E i \in bodyModals : modals[i].state = "shown"
    /\ modals' = [i \in DOMAIN modals |->
                    IF i \in bodyModals /\ modals[i].state = "shown"
                    THEN [modals[i] EXCEPT !.state = "hiding"]
                    ELSE modals[i]]
    /\ UNCHANGED bodyModals
    /\ UNCHANGED clockVars
    /\ UNCHANGED exceptModal

\* a click on a data-bs-dismiss="modal" button of modal i
DismissModal(i) ==
    /\ Active
    /\ i \in DOMAIN modals
    /\ modals[i].state = "shown"
    /\ modals' = [modals EXCEPT ![i].state = "hiding"]
    /\ UNCHANGED bodyModals
    /\ UNCHANGED clockVars
    /\ UNCHANGED exceptModal

\* a plausible slip: the listener looks the node up by its id, and two
\* modals made in the same millisecond share one id
ModalHiddenById(i) ==
    /\ Quiescent
    /\ i \in DOMAIN modals
    /\ modals[i].state = "hiding"
    /\ modals' = [modals EXCEPT ![i].state = "hidden"]
    /\ bodyModals' = bodyModals \
          {Min({j \in bodyModals : modals[j].id = modals[i].id})}
    /\ UNCHANGED clockVars
    /\ UNCHANGED exceptModal

\* the toolkit reports modal i hidden: the 'hidden.bs.modal' listener runs
\* modal.remove()
ModalHidden(i) ==
    /\ Quiescent
    /\ i \in DOMAIN modals
    /\ modals[i].state = "hiding"
    /\ modals' = [modals EXCEPT ![i].state = "hidden"]
    /\ bodyModals' = bodyModals \ {i}
    /\ UNCHANGED clockVars
    /\ UNCHANGED exceptModal

---------------------------------------------------------------------------
(* MedicalApp.validateImage and SecurityUtils.secureFileUpload *)

\* A File is [type, size, name].  A name is the sequence of its characters,
\* so that toLowerCase and includes are computed as the code computes them.

UpperCase == <<"A", "B", "C", "D", "E", "F", "G", "H", "I", "J", "K", "L", "M",
               "N", "O", "P", "Q", "R", "S", "T", "U", "V", "W", "X", "Y", "Z">>
LowerCase == <<"a", "b", "c", "d", "e", "f", "g", "h", "i", "j", "k", "l", "m",
               "n", "o", "p", "q", "r", "s", "t", "u", "v", "w", "x", "y", "z">>

\* String.prototype.toLowerCase
ToLowerCase(str) ==
    [p \in DOMAIN str |->
        IF \E k \in DOMAIN UpperCase : UpperCase[k] = str[p]
        THEN LowerCase[CHOOSE k \in DOMAIN UpperCase : UpperCase[k] = str[p]]
        ELSE str[p]]

\* String.prototype.includes
Includes(str, sub) ==
    \E p \in 1..(Len(str) - Len(sub) + 1) : SubSeq(str, p, p + Len(sub) - 1) = sub

\* the results of a validator
NotCalled == "not called"
ReturnedTrue == "true"
Threw(result) == result \notin {NotCalled, ReturnedTrue}

\* maxSize, in both validators
MaxSize == 16 * 1024 * 1024

\* validTypes of validateImage
validTypes ==
    {"image/jpeg", "image/jpg", "image/png", "image/gif", "image/bmp", "image/tiff"}

\* a plausible slip: >= in the size test
validateImageOffByOne(f) ==
    IF f.type \notin validTypes
    THEN "Invalid file type. Please upload an image file (JPEG, PNG, GIF, BMP, TIFF)"
    ELSE IF f.size >= MaxSize
    THEN "File too large. Maximum size is 16MB"
    ELSE ReturnedTrue

\* MedicalApp.validateImage(file): the message of the Error thrown, or true
validateImage(f) ==
    IF f.type \notin validTypes
    THEN "Invalid file type. Please upload an image file (JPEG, PNG, GIF, BMP, TIFF)"
    ELSE IF f.size > MaxSize
    THEN "File too large. Maximum size is 16MB"
    ELSE ReturnedTrue

\* allowedTypes of secureFileUpload
allowedTypes ==
    {"image/jpeg", "image/png", "image/gif", "image/bmp", "image/tiff"}

\* dangerousExtensions of secureFileUpload
dangerousExtensions ==
    { <<".", "e", "x", "e">>, <<".", "b", "a", "t">>, <<".", "c", "m", "d">>,
      <<".", "s", "c", "r">>, <<".", "p", "i", "f">>, <<".", "c", "o", "m">> }

\* SecurityUtils.secureFileUpload(file): the message of the Error thrown, or true
secureFileUpload(f) ==
    IF f.type \notin allowedTypes
    THEN "Invalid file type"
    ELSE IF f.size > MaxSize
    THEN "File too large"
    ELSE LET fileName == ToLowerCase(f.name)
         IN  IF \E ext \in dangerousExtensions : Includes(fileName, ext)
             THEN "Potentially dangerous file detected"
             ELSE ReturnedTrue

\* the files the validators are tried on
FileTypes == validTypes \cup {"application/pdf", "image/svg+xml", ""}
FileSizes == {0, MaxSize - 1, MaxSize, MaxSize + 1, 17 * 1024 * 1024}
FileNames ==
    { <<"r", "e", "p", "o", "r", "t", ".", "e", "x", "e">>,
      <<"m", "y", ".", "e", "x", "e", ".", "p", "n", "g">>,
      <<"p", "h", "o", "t", "o", ".", "p", "n", "g">>,
      <<"S", "C", "A", "N", ".", "B", "A", "T">>,
      <<"a", ".", "C", "o", "m">>,
      <<"e", "x", "e", ".", "j", "p", "g">>,
      <<"x", ".", "c", "m">>,
      <<>> }
Files == [type : FileTypes, size : FileSizes, name : FileNames]

\* the user selects a file
SelectFile(f) ==
    /\ f # file
    /\ file' = f
    /\ viResult' = NotCalled
    /\ sfResult' = NotCalled
    /\ UNCHANGED exceptFile

\* MedicalApp.validateImage(file)
ValidateImage ==
    /\ viResult = NotCalled
    /\ viResult' = validateImage(file)
    /\ UNCHANGED <<file, sfResult>>
    /\ UNCHANGED exceptFile

\* SecurityUtils.secureFileUpload(file)
SecureFileUpload ==
    /\ sfResult = NotCalled
    /\ sfResult' = secureFileUpload(file)
    /\ UNCHANGED <<file, viResult>>
    /\ UNCHANGED exceptFile

---------------------------------------------------------------------------
(* MedicalApp.handleResponsiveLayout *)

\* below this width the layout is mobile
MobileBreakpoint == 768
\* below this width, and not mobile, the layout is tablet
TabletBreakpoint == 992

\* the viewport widths tried, and the classes document.body may carry
Widths == {0, 320, 500, 767, 768, 769, 800, 991, 992, 993, 1200, 1920}
BodyClassNames == {"mobile-layout", "tablet-layout", "modal-open"}

\* a plausible slip: the tablet class is added and never taken off
handleResponsiveLayoutNoRemove(classes, width) ==
    LET mobile == IF width < MobileBreakpoint
                  THEN classes \cup {"mobile-layout"}
                  ELSE classes \ {"mobile-layout"}
    IN  IF width >= MobileBreakpoint /\ width < TabletBreakpoint
        THEN mobile \cup {"tablet-layout"}
        ELSE mobile

\* handleResponsiveLayout(): document.body.classList afterwards
handleResponsiveLayout(classes, width) ==
    LET mobile == IF width < MobileBreakpoint
                  THEN classes \cup {"mobile-layout"}
                  ELSE classes \ {"mobile-layout"}
    IN  IF width >= MobileBreakpoint /\ width < TabletBreakpoint
        THEN mobile \cup {"tablet-layout"}
        ELSE mobile \ {"tablet-layout"}

\* the window is resized to width w: onWindowResize
Resize(w) ==
    /\ innerWidth' = w
    /\ bodyClasses' = handleResponsiveLayout(bodyClasses, w)
    /\ resized' = TRUE
    /\ UNCHANGED exceptLayout

---------------------------------------------------------------------------
(* MedicalAnalytics *)

\* the calls of track
MaxEvents == 3

EventNames == {"page_view", "javascript_error"}

\* the `data` of a track call: an object (a function from its keys); an
\* extra field may be called `event`
ExtraData ==
    {[k \in {} |-> ""]} \cup {[page |-> "/"]} \cup {[event |-> n] : n \in EventNames}

\* {...base, ...data}: the fields of data win
Spread(base, data) ==
    [k \in DOMAIN base \cup DOMAIN data |->
        IF k \in DOMAIN data THEN data[k] ELSE base[k]]

\* `summary` holds the last summary returned, if any
NoSummary == <<>>

\* track(event, data), sendToAnalytics included
Track(name, data) ==
    /\ Active
    /\ Len(tracked) < MaxEvents
    /\ LET eventData ==
               Spread([event |-> name,
                       timestamp |-> now,
                       sessionDuration |-> now - sessionStart,
                       userAgent |-> "userAgent",
                       url |-> "href"], data)
       IN  /\ events' = Append(events, eventData)
           /\ forwarded' = IF gtagDefined THEN Append(forwarded, eventData)
                           ELSE forwarded
    /\ tracked' = Append(tracked, name)
    /\ UNCHANGED <<sessionStart, gtagDefined, summary>>
    /\ UNCHANGED clockVars
    /\ UNCHANGED exceptAnalytics

\* getSessionSummary(); `calls` records how many track calls came before
GetSessionSummary ==
    /\ Active
    /\ summary' = <<[sessionDuration |-> now - sessionStart,
                     totalEvents |-> Len(events),
                     uniqueEvents |-> Cardinality({events[i].event : i \in DOMAIN events}),
                     events |-> events,
                     calls |-> Len(tracked)]>>
    /\ UNCHANGED <<sessionStart, events, tracked, gtagDefined, forwarded>>
    /\ UNCHANGED clockVars
    /\ UNCHANGED exceptAnalytics

---------------------------------------------------------------------------
(* MedicalApp.animateNumber *)

\* animateNumber's default `duration`
DefaultAnimateDuration == 1000
\* the period of the interval, and the divisor of `duration` in `increment`
FrameInterval == 16
\* aRuns counts the runs of the interval callback up to MaxRuns
MaxRuns == 70

\* the start and end values and the positive durations tried
AnimateValues == {-3, 0, 5, 100}
AnimateDurations == {1, FrameInterval, 100, DefaultAnimateDuration}

\* `current` and `increment` are kept exact, as numerators over aDuration:
\* increment = range / (duration / 16) = 16 * range / duration
IncrementNum == FrameInterval * (aEnd - aStart)

\* Math.round(num / den), den > 0: the nearest integer, halves upwards
MathRound(num, den) == (2 * num + den) \div (2 * den)

\* animateNumber(element, start, end, duration): sets the interval
AnimateNumber(start, end, duration) ==
    /\ aTimer = "none"
    /\ aStart' = start
    /\ aEnd' = end
    /\ aDuration' = duration
    /\ currentNum' = start * duration
    /\ aTimer' = "running"
    /\ UNCHANGED <<textContent, aRuns>>
    /\ UNCHANGED exceptAnimate

\* the interval callback, every 16 ms until clearInterval(timer)
AnimateTick ==
    /\ aTimer = "running"
    /\ LET current == currentNum + IncrementNum
           reached == \/ IncrementNum > 0 /\ current >= aEnd * aDuration
                      \/ IncrementNum < 0 /\ current <= aEnd * aDuration
           final   == IF reached THEN aEnd * aDuration ELSE current
       IN  /\ currentNum' = final
           /\ aTimer' = IF reached THEN "cleared" ELSE "running"
           /\ textContent' = MathRound(final, aDuration)
    /\ aRuns' = IF aRuns < MaxRuns THEN aRuns + 1 ELSE aRuns
    /\ UNCHANGED <<aStart, aEnd, aDuration>>
    /\ UNCHANGED exceptAnimate

---------------------------------------------------------------------------
(* Specifications *)

ClockInit ==
    /\ now = 0
    /\ timers = {}
    /\ nextTimerId = 1

\* const f = Utils.debounce(func, wait, immediate)
DebounceInit ==
    /\ dWait \in Delays
    /\ dImmediate \in BOOLEAN
    /\ timeout = Null
    /\ dLog = <<>>

\* a page that debounces nothing
DebounceIdle ==
    /\ dWait = 100
    /\ dImmediate = FALSE
    /\ timeout = Null
    /\ dLog = <<>>

\* const f = Utils.throttle(func, limit)
ThrottleInit ==
    /\ tLimit \in Delays
    /\ inThrottle = FALSE
    /\ tLog = <<>>

\* a page that throttles nothing
ThrottleIdle ==
    /\ tLimit = 100
    /\ inThrottle = FALSE
    /\ tLog = <<>>

\* no toast yet; the page's markup may bring a .toast-container of its own
ToastInit ==
    /\ toasts = <<>>
    /\ containers \in {<<>>, <<"page">>}

ToastIdle ==
    /\ toasts = <<>>
    /\ containers = <<>>

ModalInit ==
    /\ modals = <<>>
    /\ bodyModals = {}

\* a file has been selected and no validator has run
FileInit ==
    /\ file \in Files
    /\ viResult = NotCalled
    /\ sfResult = NotCalled

FileIdle ==
    /\ file = [type |-> "image/png", size |-> 0, name |-> <<>>]
    /\ viResult = NotCalled
    /\ sfResult = NotCalled

\* the page as loaded: no resize handled yet, the layout classes as the
\* markup or other script left them
LayoutInit ==
    /\ innerWidth \in Widths
    /\ bodyClasses \in SUBSET BodyClassNames
    /\ resized = FALSE

LayoutIdle ==
    /\ innerWidth = 1200
    /\ bodyClasses = {}
    /\ resized = FALSE

\* new MedicalAnalytics()
AnalyticsInit ==
    /\ sessionStart = now
    /\ events = <<>>
    /\ tracked = <<>>
    /\ gtagDefined \in BOOLEAN
    /\ forwarded = <<>>
    /\ summary = NoSummary

AnalyticsIdle ==
    /\ sessionStart = now
    /\ events = <<>>
    /\ tracked = <<>>
    /\ gtagDefined = FALSE
    /\ forwarded = <<>>
    /\ summary = NoSummary

\* no animation started; the element shows 0
AnimateInit ==
    /\ aStart = 0
    /\ aEnd = 0
    /\ aDuration = DefaultAnimateDuration
    /\ currentNum = 0
    /\ textContent = 0
    /\ aTimer = "none"
    /\ aRuns = 0

\* the whole page
Init ==
    /\ ClockInit /\ DebounceInit /\ ThrottleInit /\ ToastInit /\ ModalInit
    /\ FileInit /\ LayoutInit /\ AnalyticsInit /\ AnimateInit
Next ==
    \/ Tick
    \/ \E a \in Args : DebounceCall(a)
    \/ DebounceLater
    \/ \E a \in Args : ThrottleCall(a)
    \/ ThrottleUnlock
    \/ \E d \in Durations : CreateToast(d)
    \/ ToastHide
    \/ ToastRemove
    \/ \E i \in 1..MaxToasts : ToastDetach(i)
    \/ ShowModal
    \/ EscapeKey
    \/ \E i \in 1..MaxModals : DismissModal(i)
    \/ \E i \in 1..MaxModals : ModalHidden(i)
    \/ \E f \in Files : SelectFile(f)
    \/ ValidateImage
    \/ SecureFileUpload
    \/ \E w \in Widths : Resize(w)
    \/ \E n \in EventNames, d \in ExtraData : Track(n, d)
    \/ GetSessionSummary
    \/ \E st, en \in AnimateValues, d \in AnimateDurations : AnimateNumber(st, en, d)
    \/ AnimateTick
Spec == Init /\ [][Next]_vars

\* one component at a time, the rest of the page at rest

InitDebounce ==
    /\ ClockInit /\ DebounceInit /\ ThrottleIdle /\ ToastIdle /\ ModalInit
    /\ FileIdle /\ LayoutIdle /\ AnalyticsIdle /\ AnimateInit
NextDebounce ==
    \/ \E a \in Args : DebounceCall(a)
    \/ DebounceLater
    \/ Tick
SpecDebounce == InitDebounce /\ [][NextDebounce]_vars

InitThrottle ==
    /\ ClockInit /\ DebounceIdle /\ ThrottleInit /\ ToastIdle /\ ModalInit
    /\ FileIdle /\ LayoutIdle /\ AnalyticsIdle /\ AnimateInit
NextThrottle ==
    \/ \E a \in Args : ThrottleCall(a)
    \/ ThrottleUnlock
    \/ Tick
SpecThrottle == InitThrottle /\ [][NextThrottle]_vars

InitToast ==
    /\ ClockInit /\ DebounceIdle /\ ThrottleIdle /\ ToastInit /\ ModalInit
    /\ FileIdle /\ LayoutIdle /\ AnalyticsIdle /\ AnimateInit
NextToast ==
    \/ \E d \in Durations : CreateToast(d)
    \/ ToastHide
    \/ ToastRemove
    \/ \E i \in 1..MaxToasts : ToastDetach(i)
    \/ Tick
SpecToast == InitToast /\ [][NextToast]_vars
\* the clock runs on and the host runs every due timer
FairSpecToast ==
    SpecToast /\ WF_vars(Tick) /\ WF_vars(ToastHide) /\ WF_vars(ToastRemove)

InitModal ==
    /\ ClockInit /\ DebounceIdle /\ ThrottleIdle /\ ToastIdle /\ ModalInit
    /\ FileIdle /\ LayoutIdle /\ AnalyticsIdle /\ AnimateInit
NextModal ==
    \/ ShowModal
    \/ EscapeKey
    \/ \E i \in 1..MaxModals : DismissModal(i)
    \/ \E i \in 1..MaxModals : ModalHidden(i)
    \/ Tick
SpecModal == InitModal /\ [][NextModal]_vars

InitFiles ==
    /\ ClockInit /\ DebounceIdle /\ ThrottleIdle /\ ToastIdle /\ ModalInit
    /\ FileInit /\ LayoutIdle /\ AnalyticsIdle /\ AnimateInit
NextFiles ==
    \/ \E f \in Files : SelectFile(f)
    \/ ValidateImage
    \/ SecureFileUpload
SpecFiles == InitFiles /\ [][NextFiles]_vars

InitLayout ==
    /\ ClockInit /\ DebounceIdle /\ ThrottleIdle /\ ToastIdle /\ ModalInit
    /\ FileIdle /\ LayoutInit /\ AnalyticsIdle /\ AnimateInit
NextLayout == \E w \in Widths : Resize(w)
SpecLayout == InitLayout /\ [][NextLayout]_vars

InitAnalytics ==
    /\ ClockInit /\ DebounceIdle /\ ThrottleIdle /\ ToastIdle /\ ModalInit
    /\ FileIdle /\ LayoutIdle /\ AnalyticsInit /\ AnimateInit
NextAnalytics ==
    \/ \E n \in EventNames, d \in ExtraData : Track(n, d)
    \/ GetSessionSummary
    \/ Tick
SpecAnalytics == InitAnalytics /\ [][NextAnalytics]_vars

InitAnimate ==
    /\ ClockInit /\ DebounceIdle /\ ThrottleIdle /\ ToastIdle /\ ModalInit
    /\ FileIdle /\ LayoutIdle /\ AnalyticsIdle /\ AnimateInit
NextAnimate ==
    \/ \E st, en \in AnimateValues, d \in AnimateDurations : AnimateNumber(st, en, d)
    \/ AnimateTick
SpecAnimate == InitAnimate /\ [][NextAnimate]_vars

---------------------------------------------------------------------------
(* Properties of Utils.debounce and Utils.throttle *)

IsCall(log, p) == log[p].kind = "call"
IsFn(log, p)   == log[p].kind = "fn"

\* func was invoked by the call logged just before it, in the same turn
InvokedByCall(log, p) ==
    /\ p > 1
    /\ IsCall(log, p - 1)
    /\ log[p - 1].arg = log[p].arg
    /\ log[p - 1].time = log[p].time

\* C1: in trailing mode (immediate not set), func is invoked exactly once
\* for each burst of calls spaced less than wait ms apart: every invocation
\* directly follows the last call of its burst, carries that call's
\* arguments and happens no earlier than wait ms after it; no burst ends
\* (a gap of wait ms or more between two calls) without an invocation in
\* between; and after the last call so far the invocation is still pending
\* with that call's arguments.
C1_DebounceTrailing ==
    ~dImmediate =>
        /\ \A p \in 1..Len(dLog) :
              IsFn(dLog, p) =>
                  /\ p > 1
                  /\ IsCall(dLog, p - 1)
                  /\ dLog[p].arg = dLog[p - 1].arg
                  /\ dLog[p].time >= dLog[p - 1].time + dWait
        /\ \A p \in 1..(Len(dLog) - 1) :
              IsCall(dLog, p) /\ IsCall(dLog, p + 1) =>
                  dLog[p + 1].time < dLog[p].time + dWait
        /\ (dLog # <<>> /\ IsCall(dLog, Len(dLog))) =>
              /\ now <= dLog[Len(dLog)].time + dWait
              /\ \E t \in timers :
                    /\ t.kind = "later"
                    /\ t.arg = dLog[Len(dLog)].arg
                    /\ t.due = dLog[Len(dLog)].time + dWait

\* two calls of one burst, made at different times with different
\* arguments, then the single trailing invocation
C1_Witness ==
    /\ ~dImmediate
    /\ Len(dLog) = 3
    /\ IsCall(dLog, 1) /\ IsCall(dLog, 2) /\ IsFn(dLog, 3)
    /\ dLog[1].arg # dLog[2].arg
    /\ dLog[1].time < dLog[2].time

\* the call at p arrives with no timer pending: it is the first call, or
\* the previous call was made at least wait ms earlier
Leading(p) ==
    \A q \in 1..(p - 1) : IsCall(dLog, q) => dLog[q].time + dWait <= dLog[p].time

\* C10: with immediate = true, func is invoked on exactly the leading
\* calls (the first call, or a call at least wait ms after the previous
\* call), in the call's own turn and with its arguments; a call that
\* arrives while the timer is pending invokes nothing, and the timer's
\* expiry invokes nothing.
C10_DebounceLeading ==
    dImmediate =>
        /\ \A p \in 1..Len(dLog) : IsFn(dLog, p) => InvokedByCall(dLog, p)
        /\ \A p \in 1..Len(dLog) :
              IsCall(dLog, p) =>
                  (Leading(p) <=> (p < Len(dLog) /\ IsFn(dLog, p + 1)))
        /\ (timeout # Null) <=> (\E t \in timers : t.kind = "later")

\* a leading call, a call inside the window (no invocation), the timer's
\* expiry, then a leading call again
C10_Witness ==
    /\ dImmediate
    /\ Len(dLog) = 5
    /\ IsCall(dLog, 1) /\ IsFn(dLog, 2)
    /\ IsCall(dLog, 3) /\ IsCall(dLog, 4) /\ IsFn(dLog, 5)
    /\ dLog[3].time > dLog[1].time

\* the call at p arrives with the wrapper unlocked: no invocation in the
\* limit ms before it
Unlocked(p) ==
    \A q \in 1..(p - 1) : IsFn(tLog, q) => tLog[q].time + tLimit <= tLog[p].time

\* C2: the throttled wrapper invokes func in the turn of exactly those
\* calls that arrive unlocked (the first call, or a call at least limit ms
\* after the last invocation); a call made while locked invokes nothing,
\* then or later; so two invocations are never less than limit ms apart.
C2_Throttle ==
    /\ \A p \in 1..Len(tLog) : IsFn(tLog, p) => InvokedByCall(tLog, p)
    /\ \A p \in 1..Len(tLog) :
          IsCall(tLog, p) =>
              (Unlocked(p) <=> (p < Len(tLog) /\ IsFn(tLog, p + 1)))
    /\ \A p, q \in 1..Len(tLog) :
          (p < q /\ IsFn(tLog, p) /\ IsFn(tLog, q)) =>
              tLog[q].time - tLog[p].time >= tLimit
    /\ inThrottle <=> (\E t \in timers : t.kind = "unlock")

\* an invoking call, a dropped call inside the lock, and after the lock
\* expired an invoking call again
C2_Witness ==
    /\ Len(tLog) = 5
    /\ IsCall(tLog, 1) /\ IsFn(tLog, 2)
    /\ IsCall(tLog, 3)
    /\ IsCall(tLog, 4) /\ IsFn(tLog, 5)
    /\ tLog[3].time > tLog[1].time

---------------------------------------------------------------------------
(* Properties of UIComponents.createToast *)

\* toast i keeps to its own schedule
ToastOnSchedule(i) ==
    LET t == toasts[i]
    IN  /\ t.container \in DOMAIN containers
        /\ (t.attached /\ t.show) => now <= t.created + t.duration
        /\ t.attached => now <= t.created + t.duration + FadeDelay
        /\ (t.attached /\ ~t.show) => t.hiddenAt # {}
        /\ t.hiddenAt \subseteq {t.created + t.duration}
        /\ t.removedBy = "timer" =>
              /\ ~t.show
              /\ t.removedAt = {t.created + t.duration + FadeDelay}

\* C3: a toast is in the document, inside a toast container of the
\* document, when createToast returns; it loses 'show' exactly duration ms
\* after its creation and is removed FadeDelay (300) ms after that, so it is
\* attached no later than duration + 300 ms after its creation, whatever
\* other toasts exist; a toast already out of the document is never touched
\* again by its timers; and every attached toast is eventually absent.
C3_ToastLifetime ==
    /\ [](\A i \in DOMAIN toasts : ToastOnSchedule(i))
    /\ [][Len(toasts') > Len(toasts) =>
             /\ Len(toasts') = Len(toasts) + 1
             /\ toasts'[Len(toasts')].attached
             /\ toasts'[Len(toasts')].show
             /\ toasts'[Len(toasts')].container \in DOMAIN containers']_vars
    /\ [][\A i \in DOMAIN toasts :
             ~toasts[i].attached => toasts'[i] = toasts[i]]_vars
    /\ \A i \in 1..MaxToasts :
          (i \in DOMAIN toasts /\ toasts[i].attached)
              ~> (i \in DOMAIN toasts /\ ~toasts[i].attached)

\* one toast removed by its own timers, with the default duration, and
\* another taken out by the page before its timer fired, which has fired
\* since
C3_Witness ==
    \E i, j \in DOMAIN toasts :
        /\ toasts[i].removedBy = "timer"
        /\ toasts[i].duration = DefaultDuration
        /\ toasts[j].removedBy = "page"
        /\ toasts[j].hiddenAt = {}
        /\ now > toasts[j].created + toasts[j].duration

\* C9: createToast creates at most one toast container, and only when the
\* document has none; once a toast exists the document has a container, and
\* every toast was appended to the same one.
C9_OneToastContainer ==
    /\ Cardinality({k \in DOMAIN containers : containers[k] = "created"}) <= 1
    /\ Len(containers) <= 1
    /\ toasts # <<>> => containers # <<>>
    /\ \A i, j \in DOMAIN toasts : toasts[i].container = toasts[j].container

\* the first call created the container; the second call, made after the
\* first toast's timer had fired, reused it
C9_Witness ==
    /\ containers = <<"created">>
    /\ Len(toasts) = 2
    /\ toasts[1].hiddenAt # {}
    /\ \A h \in toasts[1].hiddenAt : toasts[2].created >= h
    /\ toasts[2].container = 1

---------------------------------------------------------------------------
(* Properties of UIComponents.showModal *)

\* C4: the modal nodes in the document are exactly the nodes showModal made
\* whose hide transition has not completed: each call attaches one node, and
\* a node's 'hidden' event removes that node and no other.
C4_NoLeakedModal ==
    bodyModals = {i \in DOMAIN modals : modals[i].state # "hidden"}

\* two modals made in the same millisecond: the later one dismissed and
\* gone, the earlier one still shown
C4_Witness ==
    \E i, j \in DOMAIN modals :
        /\ i < j
        /\ modals[i].id = modals[j].id
        /\ modals[i].state = "shown"
        /\ modals[j].state = "hidden"
        /\ j \notin bodyModals

---------------------------------------------------------------------------
(* Properties of the file validators *)

\* C5: validateImage throws exactly when the type is outside the allow-list
\* or the size exceeds 16 MiB, and returns true otherwise.
C5_ValidateImage ==
    viResult # NotCalled =>
        LET bad == \/ file.type \notin {"image/jpeg", "image/jpg", "image/png",
                                        "image/gif", "image/bmp", "image/tiff"}
                   \/ file.size > 16777216
        IN  /\ Threw(viResult) <=> bad
            /\ (viResult = ReturnedTrue) <=> ~bad

\* a file of exactly 16 MiB is accepted
C5_Witness ==
    /\ viResult = ReturnedTrue
    /\ file.type = "image/jpg"
    /\ file.size = 16777216

\* C6: secureFileUpload throws exactly when validateImage throws for the
\* same file or the lower-cased name contains a denylisted extension.
C6_SecureFileUploadRefinesValidateImage ==
    (viResult # NotCalled /\ sfResult # NotCalled) =>
        (Threw(sfResult) <=>
            \/ Threw(viResult)
            \/ \E ext \in { <<".", "e", "x", "e">>, <<".", "b", "a", "t">>,
                            <<".", "c", "m", "d">>, <<".", "s", "c", "r">>,
                            <<".", "p", "i", "f">>, <<".", "c", "o", "m">> } :
                  Includes(ToLowerCase(file.name), ext))

---------------------------------------------------------------------------
(* Properties of MedicalApp.handleResponsiveLayout *)

\* C7: after a resize, whatever classes the body carried before, it carries
\* 'mobile-layout' iff width < 768 and 'tablet-layout' iff
\* 768 <= width < 992; never both, and neither from 992 on.
C7_LayoutClasses ==
    resized =>
        /\ ("mobile-layout" \in bodyClasses) <=> innerWidth < 768
        /\ ("tablet-layout" \in bodyClasses) <=> (768 <= innerWidth /\ innerWidth < 992)
        /\ ~({"mobile-layout", "tablet-layout"} \subseteq bodyClasses)
        /\ innerWidth >= 992 =>
              bodyClasses \cap {"mobile-layout", "tablet-layout"} = {}

\* a resize to a desktop width has cleared the marker classes and left the
\* body's other classes alone
C7_Witness ==
    /\ resized
    /\ innerWidth = 992
    /\ bodyClasses = {"modal-open"}

---------------------------------------------------------------------------
(* Properties of MedicalAnalytics *)

\* C8: the log holds one event per track call, and a summary reports
\* totalEvents equal to the number of track calls made before it and
\* uniqueEvents equal to the number of distinct event names passed to
\* those calls.
C8_SummaryCountsTrackedNames ==
    /\ Len(events) = Len(tracked)
    /\ summary # NoSummary =>
          /\ summary[1].events = SubSeq(events, 1, summary[1].calls)
          /\ summary[1].totalEvents = summary[1].calls
          /\ summary[1].uniqueEvents =
                Cardinality({tracked[i] : i \in 1..summary[1].calls})

---------------------------------------------------------------------------
(* Properties of MedicalApp.animateNumber *)

\* the runs of the callback that take `current` from start to end:
\* the least n with n * 16 >= duration
RunsNeeded == (aDuration + FrameInterval - 1) \div FrameInterval

\* C11: animateNumber terminates for every start, end and positive
\* duration, start = end included: once the interval callback has run the
\* ceil(duration / 16) times the increment needs (and at any later run) the
\* interval is cleared, and a cleared interval leaves the element showing
\* Math.round(end).
C11_AnimateNumberTerminates ==
    /\ (aTimer # "none" /\ aRuns >= RunsNeeded) => aTimer = "cleared"
    /\ aTimer = "cleared" => textContent = MathRound(aEnd, 1)

=============================================================================
